---- MODULE Spec2Model ----
(***************************************************************************)
(* Model of pipelines/tensorflow/prediction/pipeline.py: the graph that    *)
(* tensorflow_pipeline builds (steps, output-to-input bindings, .after()   *)
(* orderings), compile(), and the runs of the built graph by an engine     *)
(* that follows the declared partial order.                                *)
(***************************************************************************)
EXTENDS Integers, Sequences, FiniteSets, TLC

VARIABLES
    phase,      \* "init" | "building" | "build_failed" | "compiled"
    built,      \* number of steps of BuildOrder added to the graph so far
    edges,      \* dependency edges added so far: <<from, to, kind>>
    artifact,   \* TRUE once compile() has written prediction.json
    status,     \* per step: "pending" | "running" | "succeeded" | "failed"
    outputs,    \* per output reference: <<>> (not produced) or <<value>>
    written,    \* per named resource: the steps that have written it
    params,     \* the pipeline parameters the derived names are built from
    args,       \* per name argument of a step: the string the graph passes
    source,     \* the rows the rendered ingestion query selects
    store,      \* per named resource: the rows it holds
    run         \* the number of the current run of the compiled graph

vars ==
    <<phase, built, edges, artifact, status, outputs, written,
      params, args, source, store, run>>

----------------------------------------------------------------------------
(* Bounds *)

\* largest number of anomalies a skew report may list
MaxAnomalies == 2

\* largest number of rows in the source data and in the staging table
\* before the first run
MaxRows == 1

\* number of times the compiled graph is run, one run after the other
MaxRuns == 2

----------------------------------------------------------------------------
(* The steps, in the order tensorflow_pipeline creates them *)

BuildOrder ==
    << "ingest", "data_for_prediction", "data_for_validation",
       "serving_stats", "visualised_statistics", "validated_skew",
       "anomalies", "champion_model", "batch_prediction", "loaded_data" >>

Steps == { BuildOrder[i] : i \in 1..Len(BuildOrder) }

IndexOf(s) == CHOOSE i \in 1..Len(BuildOrder) : BuildOrder[i] = s

\* InputRefs with generate_statistics passed the anomaly report of
\* validate_skew instead of the validation export
InputRefsReadsReport(s) ==
    CASE s = "serving_stats"         -> { <<"validated_skew", "output">> }
      [] s = "visualised_statistics" -> { <<"serving_stats", "output">> }
      [] s = "validated_skew"        -> { <<"serving_stats", "output">> }
      [] s = "anomalies"             -> { <<"validated_skew", "output">> }
      [] s = "batch_prediction"      ->
            { <<"champion_model", "model">>,
              <<"data_for_prediction", "dataset_gcs_uri">>,
              <<"data_for_prediction", "dataset_gcs_prefix">> }
      [] s = "loaded_data"           -> { <<"batch_prediction", "batchpredictionjob">> }
      [] OTHER                       -> {}

\* InputRefs with validate_skew also passed an output of visualise_statistics
InputRefsSkewReadsVisual(s) ==
    CASE s = "serving_stats"         -> { <<"data_for_validation", "dataset">> }
      [] s = "visualised_statistics" -> { <<"serving_stats", "output">> }
      [] s = "validated_skew"        ->
            { <<"serving_stats", "output">>, <<"visualised_statistics", "output">> }
      [] s = "anomalies"             -> { <<"validated_skew", "output">> }
      [] s = "batch_prediction"      ->
            { <<"champion_model", "model">>,
              <<"data_for_prediction", "dataset_gcs_uri">>,
              <<"data_for_prediction", "dataset_gcs_prefix">> }
      [] s = "loaded_data"           -> { <<"batch_prediction", "batchpredictionjob">> }
      [] OTHER                       -> {}

\* InputRefs with batch inference not passed the model of the lookup
InputRefsNoModel(s) ==
    CASE s = "serving_stats"         -> { <<"data_for_validation", "dataset">> }
      [] s = "visualised_statistics" -> { <<"serving_stats", "output">> }
      [] s = "validated_skew"        -> { <<"serving_stats", "output">> }
      [] s = "anomalies"             -> { <<"validated_skew", "output">> }
      [] s = "batch_prediction"      ->
            { <<"data_for_prediction", "dataset_gcs_uri">>,
              <<"data_for_prediction", "dataset_gcs_prefix">> }
      [] s = "loaded_data"           -> { <<"batch_prediction", "batchpredictionjob">> }
      [] OTHER                       -> {}

\* the outputs of other steps that each step is passed as an argument
InputRefs(s) ==
    CASE s = "serving_stats"         -> { <<"data_for_validation", "dataset">> }
      [] s = "visualised_statistics" -> { <<"serving_stats", "output">> }
      [] s = "validated_skew"        -> { <<"serving_stats", "output">> }
      [] s = "anomalies"             -> { <<"validated_skew", "output">> }
      [] s = "batch_prediction"      ->
            { <<"champion_model", "model">>,
              <<"data_for_prediction", "dataset_gcs_uri">>,
              <<"data_for_prediction", "dataset_gcs_prefix">> }
      [] s = "loaded_data"           -> { <<"batch_prediction", "batchpredictionjob">> }
      [] OTHER                       -> {}

\* AfterDeps with batch_prediction missing its .after(anomalies)
AfterDepsNoGate(s) ==
    CASE s = "data_for_prediction" -> { "ingest" }
      [] s = "data_for_validation" -> { "ingest" }
      [] s = "loaded_data"         -> { "batch_prediction" }
      [] OTHER                     -> {}

\* AfterDeps with the gate also put after batch inference
AfterDepsGateAfterInference(s) ==
    CASE s = "data_for_prediction" -> { "ingest" }
      [] s = "data_for_validation" -> { "ingest" }
      [] s = "anomalies"           -> { "batch_prediction" }
      [] s = "batch_prediction"    -> { "anomalies" }
      [] s = "loaded_data"         -> { "batch_prediction" }
      [] OTHER                     -> {}

\* AfterDeps with extract-for-validation missing its .after(ingest)
AfterDepsNoIngestOrder(s) ==
    CASE s = "data_for_prediction" -> { "ingest" }
      [] s = "batch_prediction"    -> { "anomalies" }
      [] s = "loaded_data"         -> { "batch_prediction" }
      [] OTHER                     -> {}

\* AfterDeps with extract-for-validation put after extract-for-prediction
AfterDepsSerialExtracts(s) ==
    CASE s = "data_for_prediction" -> { "ingest" }
      [] s = "data_for_validation" -> { "data_for_prediction" }
      [] s = "batch_prediction"    -> { "anomalies" }
      [] s = "loaded_data"         -> { "batch_prediction" }
      [] OTHER                     -> {}

\* the steps each step is explicitly ordered after with .after()
AfterDeps(s) ==
    CASE s = "data_for_prediction" -> { "ingest" }
      [] s = "data_for_validation" -> { "ingest" }
      [] s = "batch_prediction"    -> { "anomalies" }
      [] s = "loaded_data"         -> { "batch_prediction" }
      [] OTHER                     -> {}

\* the flags the graph passes to the gate and to the model lookup, and the
\* same flags switched off
fail_on_anomalies_off == FALSE
fail_on_anomalies == TRUE
fail_on_model_not_found_off == FALSE
fail_on_model_not_found == TRUE

OutputRefs == UNION { InputRefs(s) : s \in Steps }

OutputsOf(s) == { r \in OutputRefs : r[1] = s }

----------------------------------------------------------------------------
(* The graph under construction *)

tasks == { BuildOrder[i] : i \in 1..built }

\* u -> v for every edge, whatever its kind
Arcs == { <<e[1], e[2]>> : e \in edges }

Preds(s) == { a[1] : a \in { b \in Arcs : b[2] = s } }
Succs(s) == { a[2] : a \in { b \in Arcs : b[1] = s } }

RECURSIVE ReachFrom(_, _)
\* the steps reachable from the set S along one or more arcs, given the
\* steps already found
ReachFrom(S, found) ==
    LET next == (UNION { Succs(s) : s \in S }) \ found
    IN  IF next = {} THEN found ELSE ReachFrom(next, found \cup next)

Descendants(s) == ReachFrom({s}, {})
Ancestors(s) == { u \in Steps : s \in Descendants(u) }

Acyclic == \A s \in Steps : s \notin Descendants(s)

----------------------------------------------------------------------------
(* Names *)

table_suffix == "_tf_prediction"
\* the ingested table named without the suffix
ingested_table_unsuffixed == "ingested_data"
ingested_table == "ingested_data" \o table_suffix
\* the predictions loaded into the table that ingest writes
predictions_table_ingested == ingested_table
predictions_table == "tensorflow_staging_predictions"

\* the parameter sets the graph is built with
ParamSets ==
    { [pipeline_files_gcs_path |-> "gs://bucket",
       tfdv_schema_filename    |-> "schema.pbtxt",
       dataset_id              |-> "preprocessing"],
      [pipeline_files_gcs_path |-> "gs://other/files",
       tfdv_schema_filename    |-> "tfdv_schema_serving.pbtxt",
       dataset_id              |-> "preprocessing"],
      [pipeline_files_gcs_path |-> "gs://bucket",
       tfdv_schema_filename    |-> "tfdv_schema_serving.pbtxt",
       dataset_id              |-> "staging"] }

\* tfdv_schema_path without the separator after the base path
tfdv_schema_path_unseparated ==
    params.pipeline_files_gcs_path \o "prediction/assets/"
        \o params.tfdv_schema_filename

\* base path, fixed sub-path, schema filename
tfdv_schema_path ==
    params.pipeline_files_gcs_path \o "/prediction/assets/"
        \o params.tfdv_schema_filename

\* the ingestion query job appending to its destination table
write_disposition_append == "WRITE_APPEND"

\* the write mode of the ingestion query job
write_disposition == "WRITE_TRUNCATE"

\* the name arguments the graph passes to its steps
ArgNames ==
    { <<"ingest", "table_id">>, <<"ingest", "write_disposition">>,
      <<"data_for_prediction", "table_name">>,
      <<"data_for_validation", "table_name">>,
      <<"validated_skew", "schema_path">>,
      <<"loaded_data", "table_name">> }

ArgValue(a) ==
    CASE a = <<"ingest", "table_id">>                -> ingested_table
      [] a = <<"ingest", "write_disposition">>       -> write_disposition
      [] a = <<"data_for_prediction", "table_name">> -> ingested_table
      [] a = <<"data_for_validation", "table_name">> -> ingested_table
      [] a = <<"validated_skew", "schema_path">>     -> tfdv_schema_path
      [] a = <<"loaded_data", "table_name">>         -> predictions_table

\* the value a connector/engine step gives an output: a storage name that
\* is the task's own
OutputValue(r) == <<"gcs", r[1], r[2]>>

\* the names a step writes once it runs
WritesOf(s) ==
    CASE s = "ingest"              -> { <<"bq", ingested_table>> }
      [] s = "data_for_prediction" ->
            { OutputValue(<<"data_for_prediction", "dataset_gcs_uri">>) }
      [] s = "data_for_validation" ->
            { OutputValue(<<"data_for_validation", "dataset">>) }
      [] s = "serving_stats"       -> { OutputValue(<<"serving_stats", "output">>) }
      [] s = "validated_skew"      -> { OutputValue(<<"validated_skew", "output">>) }
      [] s = "batch_prediction"    ->
            { outputs[<<"data_for_prediction", "dataset_gcs_prefix">>][1] }
      [] s = "loaded_data"         -> { <<"bq", predictions_table>> }
      [] OTHER                     -> {}

Resources ==
    { <<"bq", ingested_table>>, <<"bq", predictions_table>> }
        \cup { OutputValue(r) : r \in OutputRefs }

\* tables of up to MaxRows rows, each row the value v
RowsOf(v) == { [i \in 1..n |-> v] : n \in 0..MaxRows }

\* the predictions batch inference writes, one per row scored
Scored(rows) == [i \in DOMAIN rows |-> "scored"]

\* the rows held by the storage name that an output refers to
Held(r) == store[outputs[r][1]]

\* the rows a completing step leaves in the names it writes
ContentWritten(s) ==
    CASE s = "ingest" ->
            IF args[<<"ingest", "write_disposition">>] = "WRITE_TRUNCATE"
            THEN source
            ELSE store[<<"bq", args[<<"ingest", "table_id">>]>>] \o source
      [] s = "data_for_prediction" ->
            store[<<"bq", args[<<"data_for_prediction", "table_name">>]>>]
      [] s = "data_for_validation" ->
            store[<<"bq", args[<<"data_for_validation", "table_name">>]>>]
      [] s = "serving_stats"    -> Held(<<"data_for_validation", "dataset">>)
      [] s = "validated_skew"   -> Held(<<"serving_stats", "output">>)
      [] s = "batch_prediction" ->
            Scored(Held(<<"data_for_prediction", "dataset_gcs_uri">>))
      [] s = "loaded_data"      -> Held(<<"data_for_prediction", "dataset_gcs_prefix">>)
      [] OTHER                  -> <<>>

\* the store after step s has written
StoreAfter(s) ==
    [r \in Resources |-> IF r \in WritesOf(s) THEN ContentWritten(s) ELSE store[r]]

----------------------------------------------------------------------------
Init ==
    /\ phase = "init"
    /\ built = 0
    /\ edges = {}
    /\ artifact = FALSE
    /\ status = [s \in Steps |-> "pending"]
    /\ outputs = [r \in OutputRefs |-> <<>>]
    /\ written = [r \in Resources |-> {}]
    /\ params \in ParamSets
    /\ args = [a \in ArgNames |-> ""]
    /\ source \in RowsOf("new")
    /\ \E prior \in RowsOf("old") :
          store = [r \in Resources |->
                     IF r = <<"bq", ingested_table>> THEN prior ELSE <<>>]
    /\ run = 1

----------------------------------------------------------------------------
(* compile(): the compiler calls tensorflow_pipeline, then writes the spec *)

\* generate_query called only after the ingest step has been added
StepsBeforeQueryIngest == IndexOf("ingest")

\* the number of component calls that precede the call of generate_query
StepsBeforeQuery == 0

\* generate_query renders queries/ingest.sql; nothing has been added yet
RenderQuery ==
    /\ phase = "init"
    /\ built = StepsBeforeQuery
    /\ phase' = "building"
    /\ UNCHANGED <<built, edges, artifact, status, outputs, written,
                 params, args, source, store, run>>

\* generate_query raises (missing template, bad substitution)
RenderQueryFails ==
    /\ phase = "init"
    /\ built = StepsBeforeQuery
    /\ phase' = "build_failed"
    /\ UNCHANGED <<built, edges, artifact, status, outputs, written,
                 params, args, source, store, run>>

\* the next component call of the function body: the step joins the graph
\* with one edge per output it is passed and one per .after()
AddStep ==
    /\ phase = "building" \/ (phase = "init" /\ built < StepsBeforeQuery)
    /\ built < Len(BuildOrder)
    /\ LET s == BuildOrder[built + 1]
       IN  edges' = edges
                \cup { <<r[1], s, "data">> : r \in InputRefs(s) }
                \cup { <<u, s, "order">> : u \in AfterDeps(s) }
    /\ args' = [a \in ArgNames |->
                  IF a[1] = BuildOrder[built + 1] THEN ArgValue(a) ELSE args[a]]
    /\ built' = built + 1
    /\ UNCHANGED <<phase, artifact, status, outputs, written,
                 params, source, store, run>>

\* the function body has returned: the graph is written to prediction.json
WriteSpec ==
    /\ phase = "building"
    /\ built = Len(BuildOrder)
    /\ phase' = "compiled"
    /\ artifact' = TRUE
    /\ UNCHANGED <<built, edges, status, outputs, written,
                 params, args, source, store, run>>

----------------------------------------------------------------------------
(* One run of the compiled graph *)

Ready(s) ==
    /\ phase = "compiled"
    /\ s \in tasks
    /\ status[s] = "pending"
    /\ \A u \in Preds(s) : status[u] = "succeeded"

\* the engine starts a step whose upstream steps have all succeeded; from
\* then on the step may write the names it writes
Start(s) ==
    /\ Ready(s)
    /\ status' = [status EXCEPT ![s] = "running"]
    /\ written' = [r \in Resources |->
                     IF r \in WritesOf(s) THEN written[r] \cup {s} ELSE written[r]]
    /\ UNCHANGED <<phase, built, edges, artifact, outputs,
                 params, args, source, store, run>>

\* steps whose outcome is decided by a connector or an engine
EngineSteps ==
    { "ingest", "data_for_prediction", "data_for_validation", "serving_stats",
      "visualised_statistics", "batch_prediction", "loaded_data" }

\* a connector/engine step completes and its outputs become available
Succeed(s) ==
    /\ s \in EngineSteps
    /\ status[s] = "running"
    /\ status' = [status EXCEPT ![s] = "succeeded"]
    /\ outputs' = [r \in OutputRefs |->
                     IF r[1] = s THEN <<OutputValue(r)>> ELSE outputs[r]]
    /\ store' = StoreAfter(s)
    /\ UNCHANGED <<phase, built, edges, artifact, written,
                 params, args, source, run>>

\* Fail with the failed step put back in line to be run again
FailRetried(s) ==
    /\ s \in EngineSteps \cup {"validated_skew"}
    /\ status[s] = "running"
    /\ status' = [status EXCEPT ![s] = "pending"]
    /\ UNCHANGED <<phase, built, edges, artifact, outputs, written,
                 params, args, source, store, run>>

\* a connector/engine failure is a failure of that step; nothing retries it
Fail(s) ==
    /\ s \in EngineSteps \cup {"validated_skew"}
    /\ status[s] = "running"
    /\ status' = [status EXCEPT ![s] = "failed"]
    /\ UNCHANGED <<phase, built, edges, artifact, outputs, written,
                 params, args, source, store, run>>

\* validate_skew produces the anomaly report, listing n anomalies
ValidateSkew(n) ==
    /\ status["validated_skew"] = "running"
    /\ status' = [status EXCEPT !["validated_skew"] = "succeeded"]
    /\ outputs' = [outputs EXCEPT ![<<"validated_skew", "output">>] = <<n>>]
    /\ store' = StoreAfter("validated_skew")
    /\ UNCHANGED <<phase, built, edges, artifact, written,
                 params, args, source, run>>

\* the number of anomalies in the report the gate was passed
ReportedAnomalies == outputs[<<"validated_skew", "output">>][1]

\* show_anomalies: fails when told to fail on anomalies and any is present
ShowAnomalies ==
    /\ status["anomalies"] = "running"
    /\ status' = [status EXCEPT !["anomalies"] =
                     IF fail_on_anomalies /\ ReportedAnomalies > 0
                     THEN "failed" ELSE "succeeded"]
    /\ UNCHANGED <<phase, built, edges, artifact, outputs, written,
                 params, args, source, store, run>>

\* lookup_model: fails when told to fail on a missing model and none matches
LookupModel(found) ==
    /\ status["champion_model"] = "running"
    /\ IF ~found /\ fail_on_model_not_found
       THEN /\ status' = [status EXCEPT !["champion_model"] = "failed"]
            /\ UNCHANGED outputs
       ELSE /\ status' = [status EXCEPT !["champion_model"] = "succeeded"]
            /\ outputs' = [outputs EXCEPT ![<<"champion_model", "model">>] =
                              <<IF found THEN "champion" ELSE "no_model">>]
    /\ UNCHANGED <<phase, built, edges, artifact, written,
                 params, args, source, store, run>>

\* no step is running and none can start
Quiescent ==
    \A s \in Steps : status[s] /= "running" /\ ~Ready(s)

\* the compiled graph is submitted again once the run is over: the steps
\* and their outputs are those of the new run, the warehouse tables are kept
Rerun ==
    /\ phase = "compiled"
    /\ run < MaxRuns
    /\ Quiescent
    /\ run' = run + 1
    /\ status' = [s \in Steps |-> "pending"]
    /\ outputs' = [r \in OutputRefs |-> <<>>]
    /\ written' = [r \in Resources |-> {}]
    /\ store' = [r \in Resources |-> IF r[1] = "bq" THEN store[r] ELSE <<>>]
    /\ UNCHANGED <<phase, built, edges, artifact, params, args, source>>

Next ==
    \/ RenderQuery
    \/ RenderQueryFails
    \/ AddStep
    \/ WriteSpec
    \/ \E s \in Steps : Start(s)
    \/ \E s \in Steps : Succeed(s)
    \/ \E s \in Steps : Fail(s)
    \/ \E n \in 0..MaxAnomalies : ValidateSkew(n)
    \/ ShowAnomalies
    \/ \E found \in BOOLEAN : LookupModel(found)
    \/ Rerun

Spec == Init /\ [][Next]_vars

\* a running step ends, one way or the other
Finish(s) ==
    \/ Succeed(s)
    \/ Fail(s)
    \/ s = "validated_skew" /\ \E n \in 0..MaxAnomalies : ValidateSkew(n)
    \/ s = "anomalies" /\ ShowAnomalies
    \/ s = "champion_model" /\ \E found \in BOOLEAN : LookupModel(found)

\* the build runs to its end, the engine starts every step that is ready
\* and every started step ends
FairSpec ==
    /\ Spec
    /\ WF_vars(RenderQuery \/ RenderQueryFails)
    /\ WF_vars(AddStep)
    /\ WF_vars(WriteSpec)
    /\ \A s \in Steps : WF_vars(Start(s)) /\ WF_vars(Finish(s))

----------------------------------------------------------------------------
(* The state of a run *)

FailedSteps == { k \in Steps : status[k] = "failed" }

\* Built until a step starts, Running until a step has failed or all have
\* completed
RunState ==
    IF phase /= "compiled" THEN "NoRun"
    ELSE IF FailedSteps /= {} THEN "Failed"
    ELSE IF \A s \in Steps : status[s] = "succeeded" THEN "Succeeded"
    ELSE IF \E s \in Steps : status[s] /= "pending" THEN "Running"
    ELSE "Built"

Terminal == { "Succeeded", "Failed" }

----------------------------------------------------------------------------
(* Vocabulary of the properties *)

Produced(r) == outputs[r] /= <<>>
Report == <<"validated_skew", "output">>
Started(s) == status[s] /= "pending"
Starts(s) == status[s] = "pending" /\ status'[s] = "running"

----------------------------------------------------------------------------
\* C1: the graph is acyclic at every moment of its construction and every
\* edge leads from a step created earlier to a step created later; in a run,
\* a step that has started has every producer of its inputs succeeded and
\* every one of its inputs produced.
C1_AcyclicAndInputsResolved ==
    /\ Acyclic
    /\ \A e \in edges : IndexOf(e[1]) < IndexOf(e[2])
    /\ \A s \in Steps : Started(s) =>
          \A r \in InputRefs(s) : status[r[1]] = "succeeded" /\ Produced(r)

\* batch inference is running: its three inputs come from two producers
C1_Witness ==
    /\ status["batch_prediction"] = "running"
    /\ \A r \in InputRefs("batch_prediction") : Produced(r)

\* C2: once the report of validate-skew lists at least one anomaly, the gate
\* never succeeds, and batch inference and load predictions stay unscheduled;
\* and whenever the gate finishes on such a report it finishes failed.
C2_AnomaliesBlockInference ==
    /\ [](Produced(Report) /\ ReportedAnomalies > 0 =>
            /\ status["anomalies"] /= "succeeded"
            /\ status["batch_prediction"] = "pending"
            /\ status["loaded_data"] = "pending")
    /\ [][status["anomalies"] = "running" /\ status'["anomalies"] /= "running"
            /\ ReportedAnomalies > 0
          => status'["anomalies"] = "failed"]_vars

\* the gate has failed on a report that lists anomalies
C2_Witness ==
    /\ Produced(Report)
    /\ ReportedAnomalies > 0
    /\ status["anomalies"] = "failed"

\* C3: batch inference starts only in a state where the gate and the model
\* lookup have both succeeded and extract-for-prediction has produced its
\* storage URI and its prefix.
C3_InferenceAfterGateAndModel ==
    [][Starts("batch_prediction") =>
          /\ status["anomalies"] = "succeeded"
          /\ status["champion_model"] = "succeeded"
          /\ Produced(<<"champion_model", "model">>)
          /\ status["data_for_prediction"] = "succeeded"
          /\ Produced(<<"data_for_prediction", "dataset_gcs_uri">>)
          /\ Produced(<<"data_for_prediction", "dataset_gcs_prefix">>)]_vars

\* batch inference has started
C3_Witness == status["batch_prediction"] = "running"

\* C4: the lookup succeeds only with a model that was found, and once the
\* lookup has failed batch inference and load predictions stay unscheduled.
C4_ModelNotFoundHalts ==
    /\ [](status["champion_model"] = "succeeded" =>
            outputs[<<"champion_model", "model">>] = <<"champion">>)
    /\ [](status["champion_model"] = "failed" =>
            /\ status["batch_prediction"] = "pending"
            /\ status["loaded_data"] = "pending")
    /\ [](Started("batch_prediction") =>
            outputs[<<"champion_model", "model">>] = <<"champion">>)

\* the lookup has failed after the gate let the data through
C4_Witness ==
    /\ status["champion_model"] = "failed"
    /\ status["anomalies"] = "succeeded"
    /\ status["data_for_prediction"] = "succeeded"

\* a step of the run that the claim's proviso excludes has failed
ProvisoBroken ==
    \/ status["champion_model"] = "failed"
    \/ \E s \in EngineSteps : status[s] = "failed"

ZeroAnomalies == Produced(Report) /\ ReportedAnomalies = 0

\* C5: under fair scheduling a report with zero anomalies leads to the gate
\* succeeding, and then, unless the lookup or a connector/engine step fails,
\* to load predictions succeeding, which starts only after batch inference
\* has succeeded.
C5_ZeroAnomaliesProceeds ==
    /\ ZeroAnomalies ~> (status["anomalies"] = "succeeded")
    /\ ZeroAnomalies ~> (status["loaded_data"] = "succeeded" \/ ProvisoBroken)
    /\ [](Started("loaded_data") => status["batch_prediction"] = "succeeded")

\* the run has succeeded through a gate that saw zero anomalies
C5_Witness ==
    /\ ZeroAnomalies
    /\ status["anomalies"] = "succeeded"
    /\ status["loaded_data"] = "succeeded"

Extracts == { "data_for_prediction", "data_for_validation" }

\* C6: an extraction that has started finds ingest succeeded, so none runs
\* while ingest runs, and the edge that orders it after ingest is order-only:
\* it is passed no output of ingest.
C6_ExtractsAfterIngest ==
    \A x \in Extracts :
        /\ Started(x) => status["ingest"] = "succeeded"
        /\ ~(status["ingest"] = "running" /\ status[x] = "running")
        /\ x \in tasks => <<"ingest", x, "order">> \in edges
        /\ <<"ingest", x, "data">> \notin edges

\* both extractions have started, after ingest
C6_Witness ==
    /\ status["ingest"] = "succeeded"
    /\ \A x \in Extracts : status[x] = "running"

\* C7: two steps joined by an edge never run at the same time and the later
\* one starts only after the earlier one has succeeded; the lookup can start
\* whatever the state of the other steps, and each extraction can start as
\* soon as ingest has succeeded, whatever the state of the other extraction.
C7_IndependentStepsUnconstrained ==
    /\ \A e \in edges :
          /\ ~(status[e[1]] = "running" /\ status[e[2]] = "running")
          /\ Started(e[2]) => status[e[1]] = "succeeded"
    /\ phase = "compiled" /\ status["champion_model"] = "pending"
          => ENABLED Start("champion_model")
    /\ \A x \in Extracts :
          phase = "compiled" /\ status["ingest"] = "succeeded"
              /\ status[x] = "pending"
          => ENABLED Start(x)

\* the two extractions and the lookup run at the same time, before the
\* statistics step has started
C7_Witness ==
    /\ \A x \in Extracts : status[x] = "running"
    /\ status["champion_model"] = "running"
    /\ status["serving_stats"] = "pending"

Visual == "visualised_statistics"

\* C9: visualise-statistics has no downstream step, and each of validate-skew,
\* the gate, batch inference and load predictions can start as soon as the
\* steps it is wired to have succeeded, whatever visualise-statistics does;
\* a running validate-skew can end with any report or fail.
C9_VisualiseGatesNothing ==
    /\ Succs(Visual) = {}
    /\ phase = "compiled" =>
          /\ status["serving_stats"] = "succeeded"
                /\ status["validated_skew"] = "pending"
              => ENABLED Start("validated_skew")
          /\ status["validated_skew"] = "succeeded"
                /\ status["anomalies"] = "pending"
              => ENABLED Start("anomalies")
          /\ status["anomalies"] = "succeeded"
                /\ status["champion_model"] = "succeeded"
                /\ status["data_for_prediction"] = "succeeded"
                /\ status["batch_prediction"] = "pending"
              => ENABLED Start("batch_prediction")
          /\ status["batch_prediction"] = "succeeded"
                /\ status["loaded_data"] = "pending"
              => ENABLED Start("loaded_data")
          /\ status["validated_skew"] = "running" =>
                /\ \A n \in 0..MaxAnomalies : ENABLED ValidateSkew(n)
                /\ ENABLED Fail("validated_skew")

\* load predictions has succeeded in a run where visualise-statistics failed
C9_Witness ==
    /\ status[Visual] = "failed"
    /\ status["loaded_data"] = "succeeded"

\* the steps of the graph with no downstream step
Sinks == { s \in tasks : Succs(s) = {} }

\* C10 as stated: in the built graph load predictions is the only step with
\* no downstream step and every other step is a transitive predecessor of it.
C10_SingleExit ==
    phase = "compiled" =>
        /\ Sinks = {"loaded_data"}
        /\ Ancestors("loaded_data") = Steps \ {"loaded_data"}

\* C10, amended: in the built graph the steps with no downstream step are
\* load predictions and visualise-statistics, and every step other than
\* these two is a transitive predecessor of load predictions.
C10_TwoSinks ==
    phase = "compiled" =>
        /\ Sinks = {"loaded_data", Visual}
        /\ Ancestors("loaded_data") = Steps \ {"loaded_data", Visual}

\* the graph is complete and has been compiled
C10_Witness ==
    /\ phase = "compiled"
    /\ tasks = Steps
    /\ artifact

\* C11 as stated: whenever load predictions has completed the run is
\* Succeeded and no step has failed.
C11_SucceededIffLoaded ==
    status["loaded_data"] = "succeeded" =>
        RunState = "Succeeded" /\ FailedSteps = {}

\* C11, amended: the run is Succeeded exactly when load predictions and
\* visualise-statistics have both completed, load predictions having
\* completed means every step but visualise-statistics has completed, the
\* run is Failed exactly when some step has failed, and a failure of batch
\* inference or of load predictions makes the run Failed.
C11_SucceededIffLoadedAndVisualised ==
    phase = "compiled" =>
        /\ RunState = "Succeeded" <=>
              status["loaded_data"] = "succeeded" /\ status[Visual] = "succeeded"
        /\ status["loaded_data"] = "succeeded" =>
              \A s \in Steps \ {Visual} : status[s] = "succeeded"
        /\ RunState = "Failed" <=> FailedSteps /= {}
        /\ status["batch_prediction"] = "failed" \/ status["loaded_data"] = "failed"
              => RunState = "Failed"
        /\ RunState \in Terminal \cup {"Built", "Running"}

\* load predictions has completed in a run that is Failed
C11_Witness ==
    /\ status["loaded_data"] = "succeeded"
    /\ RunState = "Failed"
    /\ FailedSteps = {Visual}

\* C12: under fair scheduling every run reaches a terminal state and comes
\* to rest with no step running and none left to start; within a run the
\* state goes from Built to Running to one of Succeeded and Failed, and
\* stays there.
C12_RunReachesTerminal ==
    /\ \A k \in 1..MaxRuns :
          (phase = "compiled" /\ run = k) ~> (run = k /\ RunState \in Terminal)
    /\ <>[]Quiescent
    /\ [][run' = run /\ RunState' /= RunState =>
            \/ RunState = "NoRun" /\ RunState' = "Built"
            \/ RunState = "Built" /\ RunState' = "Running"
            \/ RunState = "Running" /\ RunState' \in Terminal]_vars

\* a run has failed and has come to rest with steps left unrun
C12_Witness ==
    /\ RunState = "Failed"
    /\ Quiescent
    /\ status["loaded_data"] = "pending"

\* C13: within a run a step that has started never returns to pending and a
\* step that has completed or failed keeps that status; an output changes
\* only when its producing step completes, and once produced it keeps its
\* value.
C13_StepsRunOnce ==
    [][run' = run =>
         /\ \A s \in Steps :
               /\ status[s] /= "pending" => status'[s] /= "pending"
               /\ status[s] \in {"succeeded", "failed"} => status'[s] = status[s]
         /\ \A r \in OutputRefs :
               /\ Produced(r) => outputs'[r] = outputs[r]
               /\ outputs'[r] /= outputs[r] =>
                     status[r[1]] = "running" /\ status'[r[1]] = "succeeded"]_vars

\* a step has failed and stays failed while other steps have gone on
C13_Witness ==
    /\ status["data_for_prediction"] = "failed"
    /\ status["anomalies"] = "succeeded"
    /\ Produced(Report)

IngestedTable == <<"bq", ingested_table>>

\* C14: within a run, the names written by a step that has completed keep
\* the rows they hold, whatever happens afterwards, and a step in which some
\* step fails changes nothing that is stored.
C14_UpstreamArtifactsKept ==
    [][run' = run =>
         /\ \A s \in Steps : status[s] = "succeeded" =>
               \A r \in WritesOf(s) : store'[r] = store[r]
         /\ (\E k \in Steps : status[k] /= "failed" /\ status'[k] = "failed")
               => store' = store]_vars

\* load predictions has failed with every upstream artifact in place
C14_Witness ==
    /\ status["loaded_data"] = "failed"
    /\ source /= <<>>
    /\ store[IngestedTable] = source
    /\ Held(<<"data_for_prediction", "dataset_gcs_uri">>) = source
    /\ Held(<<"data_for_validation", "dataset">>) = source
    /\ Held(<<"serving_stats", "output">>) = source
    /\ store[OutputValue(Report)] = source

\* C15: once ingest has completed, in the first run or in a rerun, the
\* ingested table holds the rows the query selects, whatever it held before.
C15_IngestReplaces ==
    status["ingest"] = "succeeded" => store[IngestedTable] = source

\* ingest has completed in a rerun over a table the first run had filled
C15_Witness ==
    /\ run = 2
    /\ status["ingest"] = "succeeded"
    /\ source /= <<>>
    /\ store[IngestedTable] = source

\* C16: when rendering the query has failed no step has been added to the
\* graph, no step has run and no specification file is written; a file is
\* written only for the complete graph.
C16_BuildFailureLeavesNothing ==
    /\ phase = "build_failed" =>
          /\ built = 0
          /\ edges = {}
          /\ \A a \in ArgNames : args[a] = ""
          /\ \A s \in Steps : status[s] = "pending"
          /\ ~artifact
    /\ artifact => phase = "compiled" /\ built = Len(BuildOrder)

\* rendering the query has failed
C16_Witness == phase = "build_failed" /\ ~artifact

\* C17: the table name passed to ingest is "ingested_data_tf_prediction"
\* for every parameter set, and the schema path passed to validate_skew is
\* the base path, "/prediction/assets/" and the schema filename.
C17_DerivedNames ==
    /\ "ingest" \in tasks =>
          args[<<"ingest", "table_id">>] = "ingested_data_tf_prediction"
    /\ "validated_skew" \in tasks =>
          LET path == args[<<"validated_skew", "schema_path">>]
              base == params.pipeline_files_gcs_path
              file == params.tfdv_schema_filename
          IN  /\ Len(path) = Len(base) + 19 + Len(file)
              /\ SubSeq(path, 1, Len(base)) = base
              /\ SubSeq(path, Len(base) + 1, Len(base) + 19) = "/prediction/assets/"
              /\ SubSeq(path, Len(base) + 20, Len(path)) = file
              /\ base = "gs://bucket" /\ file = "schema.pbtxt" =>
                    path = "gs://bucket/prediction/assets/schema.pbtxt"

\* the graph is built from gs://bucket and schema.pbtxt
C17_Witness ==
    /\ built = Len(BuildOrder)
    /\ params.pipeline_files_gcs_path = "gs://bucket"
    /\ params.tfdv_schema_filename = "schema.pbtxt"
    /\ args[<<"validated_skew", "schema_path">>]
          = "gs://bucket/prediction/assets/schema.pbtxt"

EndsWith(str, suffix) ==
    /\ Len(str) >= Len(suffix)
    /\ SubSeq(str, Len(str) - Len(suffix) + 1, Len(str)) = suffix

\* the warehouse tables that a step of the run has written
TablesWritten == { r[2] : r \in { q \in Resources : q[1] = "bq" /\ written[q] /= {} } }

\* C18 as stated: every warehouse table a step writes has a name that ends
\* with the fixed suffix.
C18_AllTablesSuffixed ==
    \A t \in TablesWritten : EndsWith(t, table_suffix)

\* C18, amended: the table ingest writes has a name that ends with the fixed
\* suffix; the table load predictions writes is named
\* "tensorflow_staging_predictions", which does not end with the suffix; no
\* other table is written and the two names differ.
C18_OnlyIngestedSuffixed ==
    /\ "ingest" \in tasks =>
          /\ EndsWith(args[<<"ingest", "table_id">>], table_suffix)
          /\ Len(args[<<"ingest", "table_id">>]) > Len(table_suffix)
    /\ "loaded_data" \in tasks =>
          /\ args[<<"loaded_data", "table_name">>] = "tensorflow_staging_predictions"
          /\ ~EndsWith(args[<<"loaded_data", "table_name">>], table_suffix)
          /\ args[<<"loaded_data", "table_name">>] /= args[<<"ingest", "table_id">>]
    /\ TablesWritten \subseteq
          { args[<<"ingest", "table_id">>], args[<<"loaded_data", "table_name">>] }
    /\ Started("ingest") => args[<<"ingest", "table_id">>] \in TablesWritten
    /\ Started("loaded_data") =>
          args[<<"loaded_data", "table_name">>] \in TablesWritten

\* both tables have been written
C18_Witness ==
    TablesWritten = { "ingested_data_tf_prediction", "tensorflow_staging_predictions" }

\* C19: within a run only ingest writes the ingested table; once both
\* extractions have completed their exports hold the same rows, those of
\* the table; and whenever batch inference has started, the report the gate
\* passed was computed from the rows that are scored.
C19_ScoredIsValidated ==
    /\ written[IngestedTable] \subseteq {"ingest"}
    /\ \A x \in Extracts : Started(x) => written[IngestedTable] = {"ingest"}
    /\ status["data_for_prediction"] = "succeeded"
          /\ status["data_for_validation"] = "succeeded"
        => /\ Held(<<"data_for_prediction", "dataset_gcs_uri">>)
                = Held(<<"data_for_validation", "dataset">>)
           /\ Held(<<"data_for_prediction", "dataset_gcs_uri">>)
                = store[IngestedTable]
    /\ Started("batch_prediction") =>
          /\ status["anomalies"] = "succeeded"
          /\ store[OutputValue(Report)]
                = Held(<<"data_for_prediction", "dataset_gcs_uri">>)
    /\ status["batch_prediction"] = "succeeded" =>
          Held(<<"data_for_prediction", "dataset_gcs_prefix">>)
              = Scored(store[OutputValue(Report)])

\* batch inference has scored rows that took the place of other rows
C19_Witness ==
    /\ run = 1
    /\ status["batch_prediction"] = "succeeded"
    /\ source /= <<>>
    /\ store[OutputValue(Report)] = source
    /\ Held(<<"data_for_prediction", "dataset_gcs_prefix">>) = Scored(source)

====
